---- MODULE Spec2Model ----
(***************************************************************************)
(* Model of cloudflare-workers/goodreads_formatter.py: the Goodreads CSV   *)
(* export is aggregated per author (extract_authors_from_goodreads) and    *)
(* formatted into three ranked views (main).                               *)
(*                                                                         *)
(* A Python str is a sequence of characters, each a string of its own, so  *)
(* that strip, split and the case-insensitive match are computed character *)
(* by character.  An ASCII character is the string holding it; any other   *)
(* character, and a control character without an escape, is the string     *)
(* naming its code point: "U+00A0" is the one character U+00A0.            *)
(* A Python str is thus never confused with None.  A Python dict is the sequence of its items, <<key, value>>  *)
(* pairs in insertion order, which is what dict.items() iterates.          *)
(***************************************************************************)
EXTENDS Integers, Sequences, FiniteSets

(* ------------------------------ bounds -------------------------------- *)

\* Largest number of data rows of the input file.
MaxRows == 4

\* Longest run of blanks and double quotes put around a name in SpecClean.
MaxPad == 3

(* ------------------------- Python str helpers ------------------------- *)

\* Python's None, kept apart from every str (no character is written "None").
None == <<"None">>

\* The characters str.strip() without arguments removes: the 29 characters c
\* for which c.isspace() holds.
Whitespace ==
    { "\t", "\n", "U+000B", "\f", "\r",
      "U+001C", "U+001D", "U+001E", "U+001F", " ",
      "U+0085", "U+00A0", "U+1680",
      "U+2000", "U+2001", "U+2002", "U+2003", "U+2004", "U+2005",
      "U+2006", "U+2007", "U+2008", "U+2009", "U+200A",
      "U+2028", "U+2029", "U+202F", "U+205F", "U+3000" }

RECURSIVE lstrip(_, _)
lstrip(s, chars) ==
    IF s # <<>> /\ Head(s) \in chars THEN lstrip(Tail(s), chars) ELSE s

RECURSIVE rstrip(_, _)
rstrip(s, chars) ==
    IF s # <<>> /\ s[Len(s)] \in chars
    THEN rstrip(SubSeq(s, 1, Len(s) - 1), chars)
    ELSE s

\* str.strip(chars): every leading and trailing character that is in chars.
strip(s, chars) == rstrip(lstrip(s, chars), chars)

\* str.split(sep) for a one-character separator: empty pieces are kept.
RECURSIVE split(_, _)
split(s, sep) ==
    IF \A k \in 1..Len(s) : s[k] # sep
    THEN <<s>>
    ELSE LET k == CHOOSE j \in 1..Len(s) :
                     s[j] = sep /\ \A m \in 1..(j - 1) : s[m] # sep
         IN  <<SubSeq(s, 1, k - 1)>> \o split(SubSeq(s, k + 1, Len(s)), sep)

UpperCase ==
    <<"A", "B", "C", "D", "E", "F", "G", "H", "I", "J", "K", "L", "M",
      "N", "O", "P", "Q", "R", "S", "T", "U", "V", "W", "X", "Y", "Z">>

LowerCase ==
    <<"a", "b", "c", "d", "e", "f", "g", "h", "i", "j", "k", "l", "m",
      "n", "o", "p", "q", "r", "s", "t", "u", "v", "w", "x", "y", "z">>

\* The letter of a-z that re.IGNORECASE lets a character match, for a str
\* pattern: its capital, and four characters outside ASCII (dotted capital I
\* and dotless i for i, long s for s, the Kelvin sign for k).
FoldChar(c) ==
    IF \E k \in DOMAIN UpperCase : UpperCase[k] = c
    THEN LowerCase[CHOOSE k \in DOMAIN UpperCase : UpperCase[k] = c]
    ELSE IF c \in { "U+0130", "U+0131" } THEN "i"
    ELSE IF c = "U+017F" THEN "s"
    ELSE IF c = "U+212A" THEN "k"
    ELSE c

FoldCase(s) == [k \in 1..Len(s) |-> FoldChar(s[k])]

\* re.match('^word$', s, re.IGNORECASE): the whole of s is the word, in any
\* case; '$' also matches just before one newline that ends s.
re_match(word, s) ==
    \/ FoldCase(s) = word
    \/ FoldCase(s) = Append(word, "\n")

(* -------------------------- clean_author_name ------------------------- *)

skip_patterns ==
    { <<"v", "a", "r", "i", "o", "u", "s">>,
      <<"u", "n", "k", "n", "o", "w", "n">>,
      <<"a", "n", "o", "n", "y", "m", "o", "u", "s">>,
      <<"e", "d", "i", "t", "o", "r">>,
      <<"t", "r", "a", "n", "s", "l", "a", "t", "o", "r">> }

\* Mutant: the generic entries are not skipped.
clean_author_name_noskip(author_name) ==
    IF author_name = None \/ author_name = <<>>
    THEN None
    ELSE LET name == strip(strip(strip(author_name, Whitespace), {"\""}), Whitespace)
         IN  IF name = <<>> THEN None ELSE name

clean_author_name(author_name) ==
    IF author_name = None \/ author_name = <<>>
    THEN None
    ELSE LET name == strip(strip(strip(author_name, Whitespace), {"\""}), Whitespace)
         IN  IF name = <<>>
             THEN None
             ELSE IF \E pattern \in skip_patterns : re_match(pattern, name)
                  THEN None
                  ELSE name

\* row.get('ISBN13', '').strip().strip('"').strip('=')
clean_isbn(raw) == strip(strip(strip(raw, Whitespace), {"\""}), {"="})

(* --------------------- the authors dict (defaultdict) ------------------ *)

Keys(d) == { d[k][1] : k \in DOMAIN d }

IndexOf(d, key) == CHOOSE k \in DOMAIN d : d[k][1] = key

\* defaultdict.__getitem__: a missing key is inserted with the default entry.
GetItem(d, key) ==
    IF key \in Keys(d)
    THEN d
    ELSE Append(d, <<key, [books |-> <<>>, total_books |-> 0]>>)

\* Mutant: the book replaces the list instead of being appended to it.
AppendBookOverwrite(d, key, book) ==
    LET d1 == GetItem(d, key)
    IN  [d1 EXCEPT ![IndexOf(d1, key)][2].books = <<book>>]

\* authors[key]["books"].append(book)
AppendBook(d, key, book) ==
    LET d1 == GetItem(d, key)
    IN  [d1 EXCEPT ![IndexOf(d1, key)][2].books = Append(@, book)]

\* Mutant: an author already counted is not counted again.
IncrementTotalOnce(d, key) ==
    LET d1 == GetItem(d, key)
    IN  [d1 EXCEPT ![IndexOf(d1, key)][2].total_books = IF @ = 0 THEN 1 ELSE @]

\* authors[key]["total_books"] += 1
IncrementTotal(d, key) ==
    LET d1 == GetItem(d, key)
    IN  [d1 EXCEPT ![IndexOf(d1, key)][2].total_books = @ + 1]

\* The BookReference of the main author: no "role" key.
MainBook(t, r) ==
    [title |-> t, isbn |-> clean_isbn(r.ISBN13),
     rating |-> r.MyRating, shelf |-> r.ExclusiveShelf]

\* Mutant: the additional author's BookReference is built like the main author's.
AdditionalBookNoRole(t, r) ==
    [title |-> t, isbn |-> clean_isbn(r.ISBN13),
     rating |-> r.MyRating, shelf |-> r.ExclusiveShelf]

\* The BookReference of an additional author.
AdditionalBook(t, r) ==
    [title |-> t, isbn |-> clean_isbn(r.ISBN13),
     rating |-> r.MyRating, shelf |-> r.ExclusiveShelf,
     role |-> "additional_author"]

\* [clean_author_name(name) for name in additional_authors.split(',')]
CleanedList(s) ==
    LET pieces == split(s, ",")
    IN  [k \in 1..Len(pieces) |-> clean_author_name(pieces[k])]

(* ------------------------------ the views ------------------------------ *)

\* Number of books of an author kept in the detailed view.
BooksLimit == 10

RECURSIVE SumTotals(_)
SumTotals(items) ==
    IF items = <<>>
    THEN 0
    ELSE items[1][2].total_books + SumTotals(Tail(items))

\* One step of the stable sort: x goes behind every item whose key is not smaller.
InsertDescending(out, x) ==
    LET n == Cardinality({ k \in DOMAIN out :
                             out[k][2].total_books >= x[2].total_books })
    IN  SubSeq(out, 1, n) \o <<x>> \o SubSeq(out, n + 1, Len(out))

\* Mutant: the sort without reverse=True.
RECURSIVE SortedAscending(_)
SortedAscending(items) ==
    IF items = <<>>
    THEN <<>>
    ELSE LET out == SortedAscending(SubSeq(items, 1, Len(items) - 1))
             x   == items[Len(items)]
             n   == Cardinality({ k \in DOMAIN out :
                                    out[k][2].total_books <= x[2].total_books })
         IN  SubSeq(out, 1, n) \o <<x>> \o SubSeq(out, n + 1, Len(out))

\* sorted(authors_data.items(), key=lambda x: x[1]["total_books"], reverse=True):
\* stable, so items of equal count keep their insertion order.
RECURSIVE SortedAuthors(_)
SortedAuthors(items) ==
    IF items = <<>>
    THEN <<>>
    ELSE InsertDescending(SortedAuthors(SubSeq(items, 1, Len(items) - 1)),
                          items[Len(items)])

\* Mutant: the slice keeps the last n elements.
LastN(s, n) == IF Len(s) <= n THEN s ELSE SubSeq(s, Len(s) - n + 1, Len(s))

\* The slice s[:n].
FirstN(s, n) == IF Len(s) <= n THEN s ELSE SubSeq(s, 1, n)

create_cache_warming_format(authors_data) ==
    LET sorted_authors == SortedAuthors(authors_data)
    IN  [metadata |->
            [source         |-> "goodreads_export",
             total_authors  |-> Len(sorted_authors),
             total_books    |-> SumTotals(sorted_authors),
             export_date    |-> "2025-09-27",
             format_version |-> "1.0"],
         authors |->
            [k \in 1..Len(sorted_authors) |->
                [name       |-> sorted_authors[k][1],
                 book_count |-> sorted_authors[k][2].total_books,
                 books      |-> FirstN(sorted_authors[k][2].books, BooksLimit)]]]

create_simple_author_list(authors_data) ==
    LET sorted_authors == SortedAuthors(authors_data)
    IN  [k \in 1..Len(sorted_authors) |-> sorted_authors[k][1]]

\* The rows main hands to writer.writerow after the header, in order.
CsvRows(authors_data) ==
    LET sorted_authors == SortedAuthors(authors_data)
    IN  [k \in 1..Len(sorted_authors) |->
            <<sorted_authors[k][1], sorted_authors[k][2].total_books>>]

(* ------------------------------ inputs -------------------------------- *)

\* Author="Jane Doe", Additional Authors="John Roe, Unknown", ISBN13 as Goodreads exports it.
RowExample ==
    [Title |-> <<"T", "1">>,
     Author |-> <<"J", "a", "n", "e", " ", "D", "o", "e">>,
     AdditionalAuthors |-> <<"J", "o", "h", "n", " ", "R", "o", "e", ",", " ", "U", "n", "k", "n", "o", "w", "n">>,
     ISBN13 |-> <<"=", "\"", "1", "2", "\"">>,
     MyRating |-> <<"5">>, ExclusiveShelf |-> <<"r", "e", "a", "d">>]

\* The main author is named again, three times, as additional author.
RowRepeated ==
    [Title |-> <<" ", "T", "2", " ">>,
     Author |-> <<"a">>,
     AdditionalAuthors |-> <<"a", ",", "a", ",", "a">>,
     ISBN13 |-> <<"1", "2">>,
     MyRating |-> <<"0">>, ExclusiveShelf |-> <<"t", "o", "-", "r", "e", "a", "d">>]

\* Every field empty.
RowEmpty ==
    [Title |-> <<>>,
     Author |-> <<>>,
     AdditionalAuthors |-> <<>>,
     ISBN13 |-> <<>>,
     MyRating |-> <<>>, ExclusiveShelf |-> <<>>]

\* Blanks (a form feed and a no-break space among them) and quotes around the
\* names, blank and generic additional authors (EDITOR with a dotted capital I).
RowPadded ==
    [Title |-> <<"T", "4">>,
     Author |-> <<"U+00A0", "\"", "a", "\"", " ">>,
     AdditionalAuthors |-> <<" ", ",", "E", "D", "U+0130", "T", "O", "R", ",", "\f", "b">>,
     ISBN13 |-> <<" ", "\"", "1", "2", "\"", "\f">>,
     MyRating |-> <<"3">>, ExclusiveShelf |-> <<"r", "e", "a", "d">>]

\* A generic main author, one valid additional author and a generic one spelt
\* with the Kelvin sign, a quoted ISBN13.
RowGeneric ==
    [Title |-> <<"T", "5">>,
     Author |-> <<" ", "A", "n", "o", "n", "y", "m", "o", "u", "s", "U+2003">>,
     AdditionalAuthors |-> <<"b", ",", "u", "n", "U+212A", "n", "o", "w", "n">>,
     ISBN13 |-> <<"\"", "=", "1", "2", "\"">>,
     MyRating |-> <<"0">>, ExclusiveShelf |-> <<"r", "e", "a", "d">>]

\* Quotes nested in quotes around a generic name, blank additional authors.
RowNested ==
    [Title |-> <<"T", "6">>,
     Author |-> <<"\"", " ", "\"", "V", "a", "r", "i", "o", "u", "s", "\"", " ", "\"">>,
     AdditionalAuthors |-> <<" ", " ">>,
     ISBN13 |-> <<"=", "1", "2", "=">>,
     MyRating |-> <<"4">>, ExclusiveShelf |-> <<"r", "e", "a", "d">>]

\* A quoted additional author.
RowQuotedAdditional ==
    [Title |-> <<"T", "7">>,
     Author |-> <<"b">>,
     AdditionalAuthors |-> <<"\"", "a", "\"">>,
     ISBN13 |-> <<"1", "2">>,
     MyRating |-> <<"1">>, ExclusiveShelf |-> <<"r", "e", "a", "d">>]

\* The data rows an input file is made of.
Records ==
    { RowExample, RowRepeated, RowEmpty, RowPadded,
      RowGeneric, RowNested, RowQuotedAdditional }

\* Runs of blanks, no-break spaces and double quotes of at most MaxPad characters.
RECURSIVE PadsOfLen(_)
PadsOfLen(n) ==
    IF n = 0
    THEN { <<>> }
    ELSE { Append(p, c) : p \in PadsOfLen(n - 1), c \in {" ", "U+00A0", "\""} }

Pads == UNION { PadsOfLen(n) : n \in 0..MaxPad }

\* What the pads are put around: names, and the generic entries in several cases.
Cores ==
    { <<>>,
      <<"a">>,
      <<"B", "o", " ", "b">>,
      <<"V", "a", "r", "i", "o", "u", "s">>,
      <<"U", "N", "K", "N", "O", "W", "N">>,
      <<"A", "n", "o", "n", "y", "m", "o", "u", "s">>,
      <<"E", "d", "i", "t", "o", "r">>,
      <<"t", "r", "a", "n", "s", "l", "a", "t", "o", "r">>,
      <<"v", "a", "r", "i", "o", "u", "U+017F">>,
      <<"e", "d", "U+0131", "t", "o", "r">>,
      <<"E", "d", "i", "t", "o", "r", " ", "S", "m", "i", "t", "h">> }

\* The arguments clean_author_name is applied to in SpecClean.
CleanInputs == { pre \o core \o post : pre \in Pads, core \in Cores, post \in Pads }

(* ------------------------------- state -------------------------------- *)

VARIABLES
    pc,                  \* where the program stands
    rows,                \* the data rows the reader has yielded so far
    row_num,             \* enumerate(reader, 1); 0 while the name is unbound
    row,                 \* the row being processed
    title,               \* its stripped title
    author,              \* its cleaned main author, or None
    additional_authors,  \* its stripped additional-authors field
    additional_list,     \* the cleaned pieces of that field
    pos,                 \* the index of the piece the inner loop is at
    authors,             \* the aggregate: items of the defaultdict, in insertion order
    cache_format,        \* main: the detailed view
    author_names,        \* main: the simple list
    csv_rows,            \* main: the rows written to the tabular output
    arg,                 \* SpecClean: the string to normalize
    result,              \* SpecClean: clean_author_name(arg)
    again                \* SpecClean: clean_author_name(result)

locals == <<row, title, author, additional_authors, additional_list, pos>>
views  == <<cache_format, author_names, csv_rows>>
clean  == <<arg, result, again>>
vars   == <<pc, rows, row_num, locals, authors, views, clean>>

Init ==
    /\ pc = "loop"
    /\ rows = <<>>
    /\ row_num = 0
    /\ row = <<>>
    /\ title = <<>>
    /\ author = None
    /\ additional_authors = <<>>
    /\ additional_list = <<>>
    /\ pos = 0
    /\ authors = <<>>
    /\ cache_format = <<>>
    /\ author_names = <<>>
    /\ csv_rows = <<>>
    /\ arg = <<>>
    /\ result = None
    /\ again = None

(* ------------------- extract_authors_from_goodreads ------------------- *)

\* Lines 48-51: the reader yields the next row; its fields are read and cleaned.
ReadRow ==
    /\ pc = "loop"
    /\ Len(rows) < MaxRows
    /\ \E r \in Records :
          /\ row' = r
          /\ rows' = Append(rows, r)
          /\ title' = strip(r.Title, Whitespace)
          /\ author' = clean_author_name(r.Author)
          /\ additional_authors' = strip(r.AdditionalAuthors, Whitespace)
    /\ row_num' = Len(rows) + 1
    /\ pc' = "main"
    /\ UNCHANGED <<additional_list, pos, authors, views, clean>>

\* Lines 64-67: where the row goes on after its main author, and the list the
\* inner loop runs over when the additional-authors field is not empty.
AfterMain ==
    /\ pc' = IF additional_authors # <<>> THEN "additional" ELSE "loop"
    /\ additional_list' = IF additional_authors # <<>>
                          THEN CleanedList(additional_authors)
                          ELSE additional_list
    /\ pos' = IF additional_authors # <<>> THEN 1 ELSE pos

\* Lines 54-61: the main author is valid and gets the book.
MainAuthor ==
    /\ pc = "main"
    /\ author # None
    /\ authors' = IncrementTotal(AppendBook(authors, author, MainBook(title, row)),
                                 author)
    /\ AfterMain
    /\ UNCHANGED <<rows, row_num, row, title, author, additional_authors, views, clean>>

\* Line 54: no valid main author.
NoMainAuthor ==
    /\ pc = "main"
    /\ author = None
    /\ AfterMain
    /\ UNCHANGED <<rows, row_num, row, title, author, additional_authors, authors,
                   views, clean>>

\* Line 67: the inner loop moves on, or ends with the list.
NextPiece ==
    /\ pos' = pos + 1
    /\ pc' = IF pos < Len(additional_list) THEN "additional" ELSE "loop"

\* Lines 68-76: a valid additional author gets the book, tagged with the role.
AdditionalAuthor ==
    /\ pc = "additional"
    /\ additional_list[pos] # None
    /\ authors' = IncrementTotal(AppendBook(authors, additional_list[pos],
                                            AdditionalBook(title, row)),
                                 additional_list[pos])
    /\ NextPiece
    /\ UNCHANGED <<rows, row_num, row, title, author, additional_authors,
                   additional_list, views, clean>>

\* Line 68: a piece that is no valid name is passed over.
NoAdditionalAuthor ==
    /\ pc = "additional"
    /\ additional_list[pos] = None
    /\ NextPiece
    /\ UNCHANGED <<rows, row_num, row, title, author, additional_authors,
                   additional_list, authors, views, clean>>

\* Lines 78-81: the reader is exhausted after at least one row; the counts are
\* printed and the aggregate is returned.
Return ==
    /\ pc = "loop"
    /\ row_num # 0
    /\ pc' = "returned"
    /\ UNCHANGED <<rows, row_num, locals, authors, views, clean>>

\* Line 78: the reader yielded no row, so row_num was never bound and the
\* f-string raises UnboundLocalError.
RaiseUnboundRowNum ==
    /\ pc = "loop"
    /\ row_num = 0
    /\ pc' = "raised"
    /\ UNCHANGED <<rows, row_num, locals, authors, views, clean>>

(* -------------------------------- main -------------------------------- *)

\* Line 137.
CreateCacheWarmingFormat ==
    /\ pc = "returned"
    /\ cache_format' = create_cache_warming_format(authors)
    /\ pc' = "detailed"
    /\ UNCHANGED <<rows, row_num, locals, authors, author_names, csv_rows, clean>>

\* Line 140.
CreateSimpleAuthorList ==
    /\ pc = "detailed"
    /\ author_names' = create_simple_author_list(authors)
    /\ pc' = "simple"
    /\ UNCHANGED <<rows, row_num, locals, authors, cache_format, csv_rows, clean>>

\* Lines 154-158.
WriteCsv ==
    /\ pc = "simple"
    /\ csv_rows' = CsvRows(authors)
    /\ pc' = "done"
    /\ UNCHANGED <<rows, row_num, locals, authors, cache_format, author_names, clean>>

Next ==
    \/ ReadRow
    \/ MainAuthor
    \/ NoMainAuthor
    \/ AdditionalAuthor
    \/ NoAdditionalAuthor
    \/ Return
    \/ RaiseUnboundRowNum
    \/ CreateCacheWarmingFormat
    \/ CreateSimpleAuthorList
    \/ WriteCsv

Spec == Init /\ [][Next]_vars

(* ------------- clean_author_name applied to its own result ------------- *)

InitClean ==
    /\ pc = "input"
    /\ arg \in CleanInputs
    /\ result = None
    /\ again = None
    /\ rows = <<>>
    /\ row_num = 0
    /\ row = <<>>
    /\ title = <<>>
    /\ author = None
    /\ additional_authors = <<>>
    /\ additional_list = <<>>
    /\ pos = 0
    /\ authors = <<>>
    /\ cache_format = <<>>
    /\ author_names = <<>>
    /\ csv_rows = <<>>

Normalize ==
    /\ pc = "input"
    /\ result' = clean_author_name(arg)
    /\ pc' = "cleaned"
    /\ UNCHANGED <<arg, again, rows, row_num, locals, authors, views>>

NormalizeAgain ==
    /\ pc = "cleaned"
    /\ result # None
    /\ again' = clean_author_name(result)
    /\ pc' = "recleaned"
    /\ UNCHANGED <<arg, result, rows, row_num, locals, authors, views>>

NextClean ==
    \/ Normalize
    \/ NormalizeAgain

SpecClean == InitClean /\ [][NextClean]_vars

(* ------------------------------- claims -------------------------------- *)

Entry(d, key) == d[IndexOf(d, key)][2]

\* C1: after every attribution step, each author's total_books is the length
\* of its books sequence.
C1_TotalBooksIsLen ==
    \A k \in DOMAIN authors :
        authors[k][2].total_books = Len(authors[k][2].books)

\* C1 witness: an author has been attributed several books.
C1_Witness ==
    \E k \in DOMAIN authors :
        /\ authors[k][2].total_books >= 3
        /\ Len(authors[k][2].books) >= 3

\* C2: every key of the aggregate is non-empty, not purely whitespace, and
\* is not, whatever its case, one of the generic entries.
C2_KeysValid ==
    \A key \in Keys(authors) :
        /\ key # <<>>
        /\ \E k \in DOMAIN key : key[k] \notin Whitespace
        /\ FoldCase(key) \notin skip_patterns

\* C2 witness: rows with generic, blank and empty names have been processed
\* and other names of theirs have reached the aggregate.
C2_Witness ==
    /\ pc = "loop"
    /\ { RowPadded, RowGeneric, RowEmpty } \subseteq { rows[n] : n \in DOMAIN rows }
    /\ <<"b">> \in Keys(authors)

\* C3: a name clean_author_name returns is returned unchanged when
\* clean_author_name is applied to it.
C3_Idempotent ==
    pc = "recleaned" => again = result

\* The valid normalized names a row names, as main or as additional author.
NamedBy(r) ==
    LET field  == strip(r.AdditionalAuthors, Whitespace)
        pieces == IF field = <<>> THEN <<>> ELSE split(field, ",")
    IN  ({ clean_author_name(r.Author) }
            \cup { clean_author_name(pieces[k]) : k \in DOMAIN pieces })
        \ { None }

\* C4: between rows, each author holds exactly one BookReference for each row
\* that names it, however often the row names it.
C4_OnePerDistinctName ==
    pc = "loop" =>
        /\ Keys(authors) = UNION { NamedBy(rows[n]) : n \in DOMAIN rows }
        /\ \A key \in Keys(authors) :
              Len(Entry(authors, key).books)
                  = Cardinality({ n \in DOMAIN rows : key \in NamedBy(rows[n]) })

\* The attributions of a row: its main author if valid, and each valid piece
\* of its additional-authors field.
RowAttributions(r) ==
    LET field  == strip(r.AdditionalAuthors, Whitespace)
        pieces == IF field = <<>> THEN <<>> ELSE split(field, ",")
    IN  (IF clean_author_name(r.Author) # None THEN 1 ELSE 0)
        + Cardinality({ k \in DOMAIN pieces : clean_author_name(pieces[k]) # None })

RECURSIVE Attributions(_)
Attributions(rs) ==
    IF rs = <<>> THEN 0 ELSE RowAttributions(Head(rs)) + Attributions(Tail(rs))

\* C5: after each row the sum of total_books is the number of attributions of
\* the rows processed; no step lowers the sum, and no step adds more than one.
C5_SumIsAttributions ==
    /\ [](pc = "loop" => SumTotals(authors) = Attributions(rows))
    /\ [][SumTotals(authors') \in { SumTotals(authors), SumTotals(authors) + 1 }]_vars

\* C5 witness: several rows are processed, with more attributions than rows.
C5_Witness ==
    /\ pc = "loop"
    /\ Len(rows) >= 2
    /\ SumTotals(authors) > Len(rows)
    /\ RowGeneric \in { rows[n] : n \in DOMAIN rows }

Position(names, key) == CHOOSE k \in DOMAIN names : names[k] = key

\* In a sequence of names, every author comes before the authors of fewer books.
Ranked(names) ==
    \A a, b \in Keys(authors) :
        Entry(authors, a).total_books > Entry(authors, b).total_books
            => /\ a \in { names[k] : k \in DOMAIN names }
               /\ b \in { names[k] : k \in DOMAIN names }
               /\ Position(names, a) < Position(names, b)

\* C6: an author with more books than another precedes it in the detailed
\* view, in the simple list and in the rows of the tabular output.
C6_RankingConsistent ==
    /\ pc \in { "detailed", "simple", "done" }
          => Ranked([k \in DOMAIN cache_format.authors |-> cache_format.authors[k].name])
    /\ pc \in { "simple", "done" } => Ranked(author_names)
    /\ pc = "done" => Ranked([k \in DOMAIN csv_rows |-> csv_rows[k][1]])

\* C6 witness: all three views exist, and an author was inserted before an
\* author of more books.
C6_Witness ==
    /\ pc = "done"
    /\ \E i, j \in DOMAIN authors :
          /\ i < j
          /\ authors[i][2].total_books < authors[j][2].total_books

\* C7: the detailed view lists each author with its full count and with its
\* first min(10, n) books in append order; the metadata total is the sum of
\* the full counts.
C7_Truncation ==
    pc \in { "detailed", "simple", "done" } =>
        /\ Len(cache_format.authors) = Len(authors)
        /\ \A key \in Keys(authors) :
              \E k \in DOMAIN cache_format.authors :
                 LET view  == cache_format.authors[k]
                     books == Entry(authors, key).books
                     n     == IF Len(books) < BooksLimit THEN Len(books) ELSE BooksLimit
                 IN  /\ view.name = key
                     /\ view.book_count = Entry(authors, key).total_books
                     /\ Len(view.books) = n
                     /\ \A m \in 1..n : view.books[m] = books[m]
        /\ cache_format.metadata.total_books = SumTotals(authors)

\* C7 witness: the detailed view of an aggregate with an author of more than
\* ten books, holding books of several rows.
C7_Witness ==
    /\ pc = "done"
    /\ \E key \in Keys(authors) :
          /\ Len(Entry(authors, key).books) > BooksLimit
          /\ \E m \in 1..BooksLimit :
                Entry(authors, key).books[m].title
                    # Entry(authors, key).books[BooksLimit + 1].title

\* C8: a stored isbn holds no double quote and does not start with '=', and
\* ="12" is stored as 12.
C8_IsbnStripped ==
    /\ \A k \in DOMAIN authors :
          \A m \in DOMAIN authors[k][2].books :
             LET isbn == authors[k][2].books[m].isbn
             IN  /\ \A c \in DOMAIN isbn : isbn[c] # "\""
                 /\ isbn = <<>> \/ isbn[1] # "="
    /\ pc = "loop" /\ rows = <<RowExample>>
          => \A k \in DOMAIN authors :
                \A m \in DOMAIN authors[k][2].books :
                   authors[k][2].books[m].isbn = <<"1", "2">>

\* d2 is d with the one book appended to the entry of key, made if missing.
OneAppended(d, d2, key, book) ==
    /\ Keys(d2) = Keys(d) \cup { key }
    /\ \A other \in Keys(d) \ { key } : Entry(d2, other) = Entry(d, other)
    /\ Entry(d2, key).books
          = Append(IF key \in Keys(d) THEN Entry(d, key).books ELSE <<>>, book)

\* The piece of the additional-authors field the inner loop is at.
CurrentPiece == split(strip(row.AdditionalAuthors, Whitespace), ",")[pos]

\* C9: the step for the main author appends one book without role, or nothing
\* when the name is not valid; the step for a piece of the additional-authors
\* field appends one book with role "additional_author", or nothing when the
\* piece is not a valid name; Jane Doe with "John Roe, Unknown" gives exactly
\* the entries Jane Doe and John Roe.
C9_Roles ==
    /\ [][/\ pc = "main" =>
                IF clean_author_name(row.Author) = None
                THEN authors' = authors
                ELSE \E book \in { Entry(authors', clean_author_name(row.Author)).books[
                                     Len(Entry(authors', clean_author_name(row.Author)).books)] } :
                        /\ OneAppended(authors, authors', clean_author_name(row.Author), book)
                        /\ "role" \notin DOMAIN book
          /\ pc = "additional" =>
                IF clean_author_name(CurrentPiece) = None
                THEN authors' = authors
                ELSE \E book \in { Entry(authors', clean_author_name(CurrentPiece)).books[
                                     Len(Entry(authors', clean_author_name(CurrentPiece)).books)] } :
                        /\ OneAppended(authors, authors', clean_author_name(CurrentPiece), book)
                        /\ "role" \in DOMAIN book
                        /\ book.role = "additional_author"
          /\ pc \notin { "main", "additional" } => authors' = authors]_vars
    /\ [](pc = "loop" /\ rows = <<RowExample>> =>
             /\ Keys(authors) = { <<"J", "a", "n", "e", " ", "D", "o", "e">>,
                                  <<"J", "o", "h", "n", " ", "R", "o", "e">> }
             /\ Len(authors) = 2)

\* C9 witness: the row of Jane Doe with "John Roe, Unknown" has been processed.
C9_Witness ==
    /\ pc = "loop"
    /\ rows = <<RowExample>>
    /\ Len(authors) = 2

\* C10: extract_authors_from_goodreads raises no error on a header row
\* followed by any number of well-formed data rows.
C10_NoError ==
    pc # "raised"

====
